---------------------------- MODULE Spec2Model ----------------------------
(***************************************************************************)
(* A model of the dream-warrior training engine.                           *)
(*                                                                         *)
(*   Spec         DreamEnv (src/dreamwarrior/dream_env.py): construction,  *)
(*                reset and the frame-skipping step, over an emulator      *)
(*                whose ticks return an arbitrary reward, done flag and    *)
(*                screen.                                                  *)
(*   SpecModel    DQN_Model.train (src/dreamwarrior/models/dqn_model.py):  *)
(*                the episode loop with its replay memory, the two         *)
(*                networks and optimize_model.                             *)
(*   SpecTrainer  DQNTrainer.train                                         *)
(*                (src/dreamwarrior/trainers/dqn_trainer.py).              *)
(*                                                                         *)
(* The program's sizes (batch size, episode count, memory capacity, ...)   *)
(* are scaled down; each scaled definition names the source's value.       *)
(*                                                                         *)
(* Tensors are finite sequences; a frame is the sequence of its pixels.    *)
(* Python's None is the string NoneVal.                                    *)
(***************************************************************************)
EXTENDS Integers, Sequences, FiniteSets, TLC

(***************************************************************************)
(* Bounds of the model.                                                    *)
(***************************************************************************)
\* largest configured frame_skip
MaxFrameSkip == 3
\* largest frame_skip passed to step explicitly
MaxFrameSkipArg == 1
\* step is not entered once the frame counter has reached this value
MaxFrame == 3
\* step is not entered once it has been called this many times
MaxCalls == 2
\* reset is not entered once it has run this many times
MaxResets == 1

\* an episode of a training run signals done at this step at the latest
MaxEpisodeSteps == 2
\* the discrete actions of the gym action space (env.action_space.n of them)
Actions == {0, 1}
\* ReplayMemory(10000), scaled
Capacity == 3

\* DQNTrainer: BATCH_SIZE = 32, NUM_EPISODES = 100, FRAME_SKIP = 4, and the loss
\* logged every 1000 steps, scaled
BATCH_SIZE == 3
NUM_EPISODES == 2
FRAME_SKIP == 2
LOG_EVERY == 4
\* an episode of a DQNTrainer run signals done at this step at the latest
MaxTrainerSteps == 5
\* a ReplayMemory used alone is pushed into at most this many times
MaxPushes == 5

\* DQN_Model.train: batch_size = 128, num_episodes = 50, target_update = 10, scaled
\* (as in the source, fewer episodes than a batch has entries)
batch_size == 3
num_episodes == 2
target_update == 2

NoneVal == "<None>"

\* frame_skip=None as an argument of step
FrameSkipNone == -1

(***************************************************************************)
(* The emulator, as far as the adapter sees it.                            *)
(***************************************************************************)
Black == <<0, 0, 0>>
White == <<255, 255, 255>>
Red == <<255, 0, 0>>

\* RGB screens the emulator can show (two pixels each)
Screens == { <<White, Red>>, <<Red, White>> }

\* the screen of a freshly constructed emulator
InitialScreen == <<Black, Black>>

\* rewards a single emulator tick can return
Rewards == {-1, 2}

\* button lists of the emulator cores: one with an unused (None) slot, as the
\* NES core has, and one without
ButtonLists == { <<"B", NoneVal, "A">>, <<"B", "A">> }

\* data.json of the game: no "actions" key, or a list of action names
NoActions == <<"<no actions key>">>
ActionLists == { NoActions, <<"A", "B">>, <<"A", "JUMP">> }

\* action indices a caller passes to step
ActionIndices == -1 .. 3

VARIABLES
    config,        \* constructor inputs: frame_skip, the core's buttons, data.json actions, movie_path
    env_pc,        \* "new", "ready", "loop", "aggregate", "returned"
    frame_skip,    \* self.frame_skip
    buttons,       \* self.buttons
    dream_buttons, \* self.dream_buttons
    frame,         \* self.frame
    episode,       \* self.episode
    state_buffer,  \* self.state_buffer, a deque(maxlen=4)
    screen,        \* what the emulator renders now
    resets,        \* number of reset() calls so far
    calls,         \* number of step() calls so far
    call,          \* the step call in progress or just finished: its arguments and locals
    ticks,         \* the emulator ticks of that call: [mask, reward, done, frame] each
    result         \* how that call ended, and what it returned

VARIABLES
    tr_pc,            \* position in train()
    policy_net,       \* the policy network's parameters (one weight)
    target_net,       \* the target network's parameters
    optimizer,        \* RMSprop state: the number of steps applied
    memory,           \* the ReplayMemory: its buffer and write position
    steps_done,       \* train()'s local steps_done
    i_episode,        \* the episode loop's index
    t,                \* the step loop's index
    state,            \* train()'s local state: a tensor or None
    action,           \* the action chosen for this step
    step_out,         \* what env.step returned: reward, done, and next_state
    history,          \* episode_durations (DQN_Model) or episode_rewards (DQNTrainer)
    tenv,             \* the environment of the run: resets, closes
    error,            \* the exception that ended train(), or "none"
    syncs,            \* number of target synchronizations so far
    sample_calls,     \* number of memory.sample calls so far
    eps_steps,        \* the steps_done value of each epsilon threshold computed so far
    opt_ret,          \* what the last optimize_model call returned or raised
    start_episode,    \* DQNTrainer.train's start_episode argument
    previous_action,  \* DQNTrainer.train's local previous_action
    episode_reward,   \* DQNTrainer.train's local episode_reward
    policy_grad,      \* the .grad of the policy network's parameter
    opt_locals,       \* the locals of the optimize_model call that has just returned
    ops,              \* the operations of the current episode of train(), in order
    chosen_by,        \* which selection (its position in eps_steps) produced action
                      \* and previous_action, and which was the episode's first
    pushes            \* a ReplayMemory used alone: the transitions pushed so far

trainVars == <<tr_pc, policy_net, target_net, optimizer, memory, steps_done, i_episode,
               t, state, action, step_out, history, tenv, error, syncs, sample_calls,
               eps_steps, opt_ret, start_episode, previous_action, episode_reward,
               policy_grad, opt_locals, ops, chosen_by, pushes>>

envObj == <<frame_skip, buttons, dream_buttons>>
envVars == <<config, env_pc, frame_skip, buttons, dream_buttons, frame, episode,
             state_buffer, screen, resets, calls, call, ticks, result>>

vars == <<envVars, trainVars>>

(***************************************************************************)
(* Helpers: Python lists, deques and tensors.                              *)
(***************************************************************************)
Range(s) == { s[k] : k \in 1..Len(s) }

\* list.index(x): the 0-based position of the first occurrence
IndexOf(s, x) == (CHOOSE k \in 1..Len(s) : s[k] = x /\ \A j \in 1..(k-1) : s[j] # x) - 1

\* deque(maxlen=m).append(x)
DequeAppend(d, x, m) ==
    IF Len(d) < m THEN Append(d, x) ELSE Append(Tail(d), x)

\* the range(n) loop appending the same x
RECURSIVE AppendTimes(_, _, _, _)
AppendTimes(d, x, times, m) ==
    IF times <= 0 THEN d ELSE AppendTimes(DequeAppend(d, x, m), x, times - 1, m)

RECURSIVE SumRewards(_)
SumRewards(s) == IF s = <<>> THEN 0 ELSE s[1].reward + SumRewards(Tail(s))

MaxOf(S) == CHOOSE x \in S : \A y \in S : y <= x

\* transforms.Grayscale() of one RGB pixel (ITU-R 601 luma, as PIL's "L" mode)
Grayscale(rgb) == (299 * rgb[1] + 587 * rgb[2] + 114 * rgb[3]) \div 1000

\* get_frame(): the rendered screen as a single-channel frame
get_frame(scr) == [p \in 1..Len(scr) |-> Grayscale(scr[p])]

\* the aggregation without the max: the newest frame alone
MaxedFrameLast(fb) == fb[Len(fb)]

\* torch.stack(list(frame_buffer)).max(0)[0]: the element-wise maximum
MaxedFrame(fb) == [p \in 1..Len(fb[1]) |-> MaxOf({ fb[k][p] : k \in 1..Len(fb) })]

\* get_state(): torch.cat(list(self.state_buffer)), one channel per frame;
\* torch.cat of an empty list raises
get_state(buf) == IF buf = <<>> THEN "RuntimeError" ELSE buf

\* the binary button mask with bit a (0-based) set
OneHot(a, len) == [k \in 1..len |-> IF k = a + 1 THEN 1 ELSE 0]

NoCall == [action_index |-> 0, arg |-> FrameSkipNone, action |-> <<>>, n |-> 0,
           i |-> 0, total_reward |-> 0, done |-> FALSE, frame_buffer |-> <<>>,
           buffer_before |-> <<>>, frame_before |-> 0, after_reset |-> FALSE]

\* no optimize_model call has returned yet
NoLocals == [batch |-> <<>>, non_final_mask |-> <<>>, next_state_values |-> <<>>,
             expected_state_action_values |-> <<>>, ops |-> <<>>, loss_grad |-> 0,
             step_grad |-> 0]

\* no action has been selected yet
NoSelection == [action |-> 0, previous_action |-> 0, first |-> 0]

NoResult == [exc |-> "none", state |-> <<>>, total_reward |-> 0, done |-> FALSE]

(***************************************************************************)
(* DreamEnv.__init__                                                       *)
(***************************************************************************)
\* lines 41-51: the reduced action list
ReducedButtons(core_buttons, actions) ==
    IF actions = NoActions THEN core_buttons ELSE Append(actions, NoneVal)

DreamEnvInit ==
    /\ env_pc = "new"
    /\ frame' = 1
    /\ frame_skip' = config.frame_skip
    /\ buttons' = config.buttons
    /\ dream_buttons' = ReducedButtons(config.buttons, config.actions)
    /\ episode' = 1
    /\ state_buffer' = AppendTimes(<<>>, get_frame(screen), config.frame_skip, 4)
    /\ env_pc' = "ready"
    /\ UNCHANGED <<config, screen, resets, calls, call, ticks, result, trainVars>>

(***************************************************************************)
(* DreamEnv.reset                                                          *)
(***************************************************************************)
\* a reset that counts the episode outside the movie_path branch
EpisodeAfterResetAlways(ep, movie_path) == ep + 1

\* lines 103-117: self.episode += 1 sits inside "if self.movie_path is not None"
EpisodeAfterReset(ep, movie_path) == IF movie_path # NoneVal THEN ep + 1 ELSE ep

reset ==
    /\ env_pc \in {"ready", "returned"}
    /\ resets < MaxResets
    /\ resets' = resets + 1
    /\ screen' = InitialScreen   \* the emulator is back at the game's initial state
    /\ episode' = EpisodeAfterReset(episode, config.movie_path)
    \* the latest operation is no longer a step call
    /\ env_pc' = "ready"
    /\ call' = NoCall
    /\ ticks' = <<>>
    /\ result' = NoResult
    /\ UNCHANGED <<config, envObj, frame, state_buffer, calls, trainVars>>

(***************************************************************************)
(* DreamEnv.step                                                           *)
(***************************************************************************)
\* self.dream_buttons[action]: Python indexing, negative indices count from the end
InRange(idx, list) == -Len(list) <= idx /\ idx < Len(list)
ListGet(list, idx) == IF idx >= 0 THEN list[idx + 1] ELSE list[Len(list) + idx + 1]

\* lines 130-134: "ok", or the exception the translation raises
TranslateOutcome(idx) ==
    IF ~InRange(idx, dream_buttons) THEN "IndexError"
    ELSE IF ListGet(dream_buttons, idx) \notin Range(buttons) THEN "ValueError"
    ELSE "ok"

\* lines 134-138
RetroAction(idx) == OneHot(IndexOf(buttons, ListGet(dream_buttons, idx)), Len(buttons))

\* a failed translation that does not leave the call
AfterTranslateNoRaise(outcome, n) == IF n > 0 THEN "loop" ELSE "aggregate"

\* lines 130-145: where the call is after the translation: a raise leaves it,
\* otherwise the loop is entered, or skipped when there is nothing to iterate
AfterTranslate(outcome, n) ==
    IF outcome # "ok" THEN "returned" ELSE IF n > 0 THEN "loop" ELSE "aggregate"

\* lines 128-143: the call up to the loop
StepBegin(idx, arg) ==
    /\ env_pc \in {"ready", "returned"}
    /\ calls < MaxCalls
    /\ frame < MaxFrame
    /\ calls' = calls + 1
    /\ ticks' = <<>>
    /\ LET outcome == TranslateOutcome(idx)
           entry == [NoCall EXCEPT !.action_index = idx, !.arg = arg,
                                   !.buffer_before = state_buffer,
                                   !.frame_before = frame,
                                   \* the operation before this call was a reset()
                                   !.after_reset = (resets > 0 /\ call = NoCall)]
       IN IF outcome # "ok"
          THEN /\ call' = entry
               /\ result' = [NoResult EXCEPT !.exc = outcome]
               /\ env_pc' = AfterTranslate(outcome, call'.n)
          ELSE /\ call' = [entry EXCEPT !.action = RetroAction(idx),
                                        !.n = IF arg = FrameSkipNone THEN frame_skip ELSE arg]
               /\ result' = NoResult
               /\ env_pc' = AfterTranslate(outcome, call'.n)
    /\ UNCHANGED <<config, envObj, frame, episode, state_buffer, screen, resets, trainVars>>

\* line 148 with the += read as a plain assignment
AccumulateLast(total, reward) == reward

\* line 148: total_reward += reward
Accumulate(total, reward) == total + reward

\* the loop without the break of lines 155-156
LoopExitsNoBreak(d, i, n) == i >= n

\* lines 145, 155-156: the loop ends after iteration i (counted from 1) of n
LoopExits(d, i, n) == d \/ i >= n

\* lines 145-156: one iteration of the loop, one emulator tick
StepTick ==
    /\ env_pc = "loop"
    /\ \E reward \in Rewards, d \in BOOLEAN, s \in Screens :
          /\ frame' = frame + 1
          /\ screen' = s
          /\ ticks' = Append(ticks, [mask |-> call.action, reward |-> reward, done |-> d,
                                   frame |-> get_frame(s)])
          /\ call' = [call EXCEPT !.i = @ + 1,
                                  !.total_reward = Accumulate(@, reward),
                                  !.done = d,
                                  !.frame_buffer = DequeAppend(@, get_frame(s), 2)]
          /\ env_pc' = IF LoopExits(d, call.i + 1, call.n) THEN "aggregate" ELSE "loop"
    /\ UNCHANGED <<config, envObj, episode, state_buffer, resets, calls, result, trainVars>>

\* lines 158-164: aggregate, push, return
StepEnd ==
    /\ env_pc = "aggregate"
    /\ IF call.frame_buffer = <<>>
       THEN \* torch.stack of an empty list raises
            /\ result' = [NoResult EXCEPT !.exc = "RuntimeError"]
            /\ UNCHANGED state_buffer
       ELSE /\ state_buffer' = DequeAppend(state_buffer, MaxedFrame(call.frame_buffer), 4)
            /\ result' = [exc |-> "ok", state |-> get_state(state_buffer'),
                          total_reward |-> call.total_reward, done |-> call.done]
    /\ env_pc' = "returned"
    /\ UNCHANGED <<config, envObj, frame, episode, screen, resets, calls, call, ticks, trainVars>>

step ==
    \/ \E idx \in ActionIndices, arg \in {FrameSkipNone} \cup (0..MaxFrameSkipArg) : StepBegin(idx, arg)
    \/ StepTick
    \/ StepEnd

(***************************************************************************)
(* The adapter's specification.                                            *)
(***************************************************************************)
EnvInit ==
    /\ config \in [frame_skip : 0..MaxFrameSkip, buttons : ButtonLists,
                   actions : ActionLists, movie_path : {NoneVal, "movies"}]
    /\ env_pc = "new"
    /\ frame_skip = 0
    /\ buttons = <<>>
    /\ dream_buttons = <<>>
    /\ frame = 0
    /\ episode = 0
    /\ state_buffer = <<>>
    /\ screen = InitialScreen
    /\ resets = 0
    /\ calls = 0
    /\ call = NoCall
    /\ ticks = <<>>
    /\ result = NoResult

\* the adapter is not part of the run
EnvIdle ==
    /\ config = [frame_skip |-> 0, buttons |-> <<>>, actions |-> NoActions,
                 movie_path |-> NoneVal]
    /\ env_pc = "idle"
    /\ frame_skip = 0
    /\ buttons = <<>>
    /\ dream_buttons = <<>>
    /\ frame = 0
    /\ episode = 0
    /\ state_buffer = <<>>
    /\ screen = InitialScreen
    /\ resets = 0
    /\ calls = 0
    /\ call = NoCall
    /\ ticks = <<>>
    /\ result = NoResult

\* the training run's variables before train() has done anything
TrainAt(pc) ==
    /\ tr_pc = pc
    /\ policy_net = 0
    /\ target_net = 0
    /\ optimizer = [step |-> 0]
    /\ memory = [buf |-> <<>>, position |-> 0]
    /\ steps_done = 0
    /\ i_episode = 0
    /\ t = 0
    /\ state = NoneVal
    /\ action = 0
    /\ step_out = [reward |-> 0, done |-> FALSE, next_state |-> NoneVal]
    /\ history = <<>>
    /\ tenv = [resets |-> 0, closed |-> 0]
    /\ error = "none"
    /\ syncs = 0
    /\ sample_calls = 0
    /\ eps_steps = <<>>
    /\ opt_ret = [loss |-> "<None>", exc |-> "none"]
    /\ start_episode = 0
    /\ previous_action = 0
    /\ episode_reward = 0
    /\ policy_grad = 0
    /\ opt_locals = NoLocals
    /\ ops = <<>>
    /\ chosen_by = NoSelection
    /\ pushes = <<>>

Init == EnvInit /\ TrainAt("idle")

Next == DreamEnvInit \/ reset \/ step

Spec == Init /\ [][Next]_vars


(***************************************************************************)
(* ReplayMemory: a ring buffer of transitions                              *)
(***************************************************************************)
MemLen(mem) == Len(mem.buf)

\* a push whose write position stops at the last slot instead of wrapping
MemPushNoWrap(mem, tr) ==
    [buf |-> IF Len(mem.buf) < Capacity
             THEN [Append(mem.buf, NoneVal) EXCEPT ![mem.position + 1] = tr]
             ELSE [mem.buf EXCEPT ![mem.position + 1] = tr],
     position |-> IF mem.position + 1 < Capacity THEN mem.position + 1 ELSE mem.position]

\* push: insert at the write position, which advances modulo the capacity
MemPush(mem, tr) ==
    [buf |-> IF Len(mem.buf) < Capacity
             THEN [Append(mem.buf, NoneVal) EXCEPT ![mem.position + 1] = tr]
             ELSE [mem.buf EXCEPT ![mem.position + 1] = tr],
     position |-> (mem.position + 1) % Capacity]

\* sample(k): k distinct positions of the buffer
MemSamples(mem, k) == { b \in SUBSET (1..Len(mem.buf)) : Cardinality(b) = k }

\* the picks b of a sample come back as a list, in any order
SampleOrders(b) ==
    { o \in [1..Cardinality(b) -> b] :
          \A i, j \in 1..Cardinality(b) : i # j => o[i] # o[j] }

(***************************************************************************)
(* The networks and the optimizer                                          *)
(***************************************************************************)
\* weights of a freshly constructed network
InitWeights == {0, 1}

\* gradients backpropagation can leave on the weight
Grads == {-2, 1}

\* the reward (its value steers nothing in the loops) and the tensor of a
\* screen difference, as the training loops see them
TrainRewards == {1}
Tensor == "tensor"

\* load_state_dict that leaves the receiving network as it was
LoadStateDictNoCopy(own, other) == own

\* net.load_state_dict(other.state_dict()): the receiver's parameters afterwards
LoadStateDict(own, other) == other

\* param.grad.data.clamp_(-1, 1)
Clamp(g) == IF g < -1 THEN -1 ELSE IF g > 1 THEN 1 ELSE g

\* optimizer.step() on a parameter with gradient g (one learning-rate unit per
\* unit of gradient)
OptimizerStep(w, g) == w - g

\* a second screen difference, for calls of optimize_model on a memory that
\* holds more than one kind of state
TensorB == "tensor_b"

\* line 84: target_net(s).max(1)[0] for one next state s, the network reduced
\* to one weight w and the state to one feature
MaxQ(w, s) == w + (IF s = Tensor THEN 1 ELSE 2)

\* GAMMA = 0.999 in thousandths; the expected values are kept in thousandths
GammaMilli == 999

\* lines 65-66: non_final_mask
NonFinalMask(batch) == [k \in 1..Len(batch) |-> batch[k].next_state # NoneVal]

\* lines 67-68: the list handed to torch.cat
NonFinalNextStates(batch) ==
    LET nf == SelectSeq(batch, LAMBDA tr : tr.next_state # NoneVal)
    IN  [k \in 1..Len(nf) |-> nf[k].next_state]

\* the number of True entries among the first k of a mask
RECURSIVE TrueUpTo(_, _)
TrueUpTo(mask, k) ==
    IF k = 0 THEN 0 ELSE TrueUpTo(mask, k - 1) + (IF mask[k] THEN 1 ELSE 0)

\* lines 83-84: zeros(batch_size), then next_state_values[mask] = values
MaskedAssign(mask, values) ==
    [k \in 1..Len(mask) |-> IF mask[k] THEN values[TrueUpTo(mask, k)] ELSE 0]

\* line 86: (next_state_values * gamma) + reward_batch
ExpectedValues(next_state_values, batch) ==
    [k \in 1..Len(batch) |-> next_state_values[k] * GammaMilli + batch[k].reward * 1000]

\* the update with the clipping moved behind the optimizer step
UpdateOpsClampLast == <<"zero_grad", "backward", "step", "clamp">>

\* lines 92-96: the operations of the update, in program order
UpdateOps == <<"zero_grad", "backward", "clamp", "step">>

\* one operation of the update on st = [w, grad, steps, ops, step_grad], with
\* g the gradient of the loss; backward() adds to the parameter's .grad
ApplyOp(op, st, g) ==
    LET logged == [st EXCEPT !.ops = Append(@, op)]
    IN  CASE op = "zero_grad" -> [logged EXCEPT !.grad = 0]
          [] op = "backward"  -> [logged EXCEPT !.grad = @ + g]
          [] op = "clamp"     -> [logged EXCEPT !.grad = Clamp(@)]
          [] op = "step"      -> [logged EXCEPT !.w = OptimizerStep(@, st.grad),
                                                !.steps = @ + 1,
                                                !.step_grad = st.grad]

RECURSIVE RunOps(_, _, _)
RunOps(prog, st, g) ==
    IF prog = <<>> THEN st ELSE RunOps(Tail(prog), ApplyOp(prog[1], st, g), g)

\* a guard that lets a memory one short of a batch through
OptimizeSkipsOffByOne(len, bs) == len < bs - 1

\* line 55: len(memory) < batch_size
OptimizeSkips(len, bs) == len < bs

(***************************************************************************)
(* DQN_Model.optimize_model                                                *)
(***************************************************************************)
\* what a call that raised exc leaves to its caller
Raised(exc) == [loss |-> NoneVal, exc |-> exc]

\* the function has no return statement with a value: a call that returns,
\* returns None
Returned == [loss |-> NoneVal, exc |-> "none"]

optimize_model(bs) ==
    IF OptimizeSkips(MemLen(memory), bs)
    THEN /\ UNCHANGED <<policy_net, target_net, optimizer, sample_calls, policy_grad>>
         /\ opt_ret' = Returned
         /\ opt_locals' = NoLocals
    ELSE IF MemLen(memory) < bs
    THEN \* sample of more entries than the memory holds raises
         /\ sample_calls' = sample_calls + 1
         /\ opt_ret' = Raised("ValueError")
         /\ opt_locals' = NoLocals
         /\ UNCHANGED <<policy_net, target_net, optimizer, policy_grad>>
    ELSE /\ sample_calls' = sample_calls + 1
         /\ UNCHANGED target_net
         /\ \E b \in MemSamples(memory, bs) : \E o \in SampleOrders(b) :
              LET batch == [k \in 1..bs |-> memory.buf[o[k]]]
                  non_final_mask == NonFinalMask(batch)
                  non_final_next_states == NonFinalNextStates(batch)
              IN  IF non_final_next_states = <<>>
                  THEN \* line 67: torch.cat of an empty list raises
                       /\ opt_ret' = Raised("RuntimeError")
                       /\ opt_locals' = [NoLocals EXCEPT !.batch = batch,
                                                         !.non_final_mask = non_final_mask]
                       /\ UNCHANGED <<policy_net, optimizer, policy_grad>>
                  ELSE \E g \in Grads :
                       LET next_state_values ==
                               MaskedAssign(non_final_mask,
                                   [k \in 1..Len(non_final_next_states) |->
                                       MaxQ(target_net, non_final_next_states[k])])
                           st == RunOps(UpdateOps,
                                        [w |-> policy_net, grad |-> policy_grad,
                                         steps |-> optimizer.step, ops |-> <<>>,
                                         step_grad |-> 0], g)
                       IN  /\ policy_net' = st.w
                           /\ policy_grad' = st.grad
                           /\ optimizer' = [step |-> st.steps]
                           /\ opt_ret' = Returned
                           /\ opt_locals' =
                                 [batch |-> batch,
                                  non_final_mask |-> non_final_mask,
                                  next_state_values |-> next_state_values,
                                  expected_state_action_values |->
                                      ExpectedValues(next_state_values, batch),
                                  ops |-> st.ops,
                                  loss_grad |-> g,
                                  step_grad |-> st.step_grad]

(***************************************************************************)
(* Pieces of the two training loops                                        *)
(***************************************************************************)
\* a next state that is a tensor even after done
NextStateAlways(d) == Tensor

\* dqn_model.py lines 166-169, dqn_trainer.py lines 140-146: the screen
\* difference if not done, else None
NextState(d) == IF d THEN NoneVal ELSE Tensor

\* a step loop without its break
LoopBreaksNever(d) == FALSE

\* dqn_model.py lines 180-182, dqn_trainer.py lines 163-164: if done: break
LoopBreaks(d) == d

\* a synchronization after every episode
SyncDueAlways(i) == TRUE

\* dqn_model.py line 184: i_episode % target_update == 0
SyncDue(i) == i % target_update = 0

\* a selection skipped at the first step of the loop
NewActionDueAfterFirst(tt) == tt % FRAME_SKIP = 0 /\ tt > 0

\* dqn_trainer.py line 119: t % FRAME_SKIP == 0
NewActionDue(tt) == tt % FRAME_SKIP = 0

(***************************************************************************)
(* DQN_Model.train                                                         *)
(***************************************************************************)
\* lines 99-121: first reset, the two networks constructed
M_CreateNets ==
    /\ tr_pc = "start"
    /\ UNCHANGED envVars
    /\ UNCHANGED <<policy_grad, opt_locals, chosen_by, pushes>>
    /\ UNCHANGED <<start_episode, previous_action, episode_reward>>
    /\ tenv' = [tenv EXCEPT !.resets = @ + 1]
    /\ ops' = <<"reset">>
    /\ policy_net' \in InitWeights
    /\ target_net' \in InitWeights
    /\ tr_pc' = "sync0"
    /\ UNCHANGED <<optimizer, memory, steps_done, i_episode, t, state, action, step_out,
                   history, error, syncs, sample_calls, eps_steps, opt_ret>>

\* lines 123-133: the first synchronization, optimizer, memory, counters
M_InitialSync ==
    /\ tr_pc = "sync0"
    /\ UNCHANGED envVars
    /\ UNCHANGED <<policy_grad, opt_locals, ops, chosen_by, pushes>>
    /\ UNCHANGED <<start_episode, previous_action, episode_reward>>
    /\ target_net' = LoadStateDict(target_net, policy_net)
    /\ syncs' = syncs + 1
    /\ optimizer' = [step |-> 0]
    /\ memory' = [buf |-> <<>>, position |-> 0]
    /\ steps_done' = 0
    /\ history' = <<>>
    /\ i_episode' = 0
    /\ tr_pc' = "episode"
    /\ UNCHANGED <<policy_net, t, state, action, step_out, tenv, error, sample_calls,
                   eps_steps, opt_ret, start_episode, previous_action, episode_reward>>

\* lines 134-139: the head of the episode loop
M_EpisodeStart ==
    /\ tr_pc = "episode"
    /\ UNCHANGED envVars
    /\ UNCHANGED <<policy_grad, opt_locals, chosen_by, pushes>>
    /\ UNCHANGED <<start_episode, previous_action, episode_reward>>
    /\ i_episode < num_episodes
    /\ tenv' = [tenv EXCEPT !.resets = @ + 1]
    /\ ops' = <<"reset">>
    /\ state' = Tensor
    /\ t' = 0
    /\ tr_pc' = "select"
    /\ UNCHANGED <<policy_net, target_net, optimizer, memory, steps_done, i_episode,
                   action, step_out, history, error, syncs, sample_calls, eps_steps, opt_ret>>

\* lines 142-153: the epsilon threshold and the action
M_SelectAction ==
    /\ tr_pc = "select"
    /\ UNCHANGED envVars
    /\ UNCHANGED <<policy_grad, opt_locals, pushes>>
    /\ UNCHANGED <<start_episode, previous_action, episode_reward>>
    /\ eps_steps' = Append(eps_steps, steps_done)
    /\ steps_done' = steps_done + 1
    /\ action' \in Actions
    /\ chosen_by' = [chosen_by EXCEPT !.action = Len(eps_steps')]
    /\ ops' = Append(ops, "select")
    /\ tr_pc' = "envstep"
    /\ UNCHANGED <<policy_net, target_net, optimizer, memory, i_episode, t, state,
                   step_out, history, tenv, error, syncs, sample_calls, opt_ret>>

\* lines 155-169: one environment step and the next state
M_EnvStep ==
    /\ tr_pc = "envstep"
    /\ UNCHANGED envVars
    /\ UNCHANGED <<policy_grad, opt_locals, chosen_by, pushes>>
    /\ UNCHANGED <<start_episode, previous_action, episode_reward>>
    /\ \E reward \in TrainRewards, d \in BOOLEAN :
          /\ (t + 1 >= MaxEpisodeSteps) => d
          /\ step_out' = [reward |-> reward, done |-> d, next_state |-> NextState(d)]
          /\ ops' = Append(ops, IF d THEN "step_done" ELSE "step")
    /\ tr_pc' = "push"
    /\ UNCHANGED <<policy_net, target_net, optimizer, memory, steps_done, i_episode, t,
                   state, action, history, tenv, error, syncs, sample_calls, eps_steps,
                   opt_ret>>

\* lines 172-175: the transition stored, the state advanced
M_Push ==
    /\ tr_pc = "push"
    /\ UNCHANGED envVars
    /\ UNCHANGED <<policy_grad, opt_locals, chosen_by, pushes>>
    /\ UNCHANGED <<start_episode, previous_action, episode_reward>>
    /\ memory' = MemPush(memory, [state |-> state, action |-> action,
                                  next_state |-> step_out.next_state,
                                  reward |-> step_out.reward])
    /\ state' = step_out.next_state
    /\ ops' = Append(ops, "push")
    /\ tr_pc' = "optimize"
    /\ UNCHANGED <<policy_net, target_net, optimizer, steps_done, i_episode, t, action,
                   step_out, history, tenv, error, syncs, sample_calls, eps_steps, opt_ret>>

\* line 178
M_Optimize ==
    /\ tr_pc = "optimize"
    /\ UNCHANGED envVars
    /\ UNCHANGED <<chosen_by, pushes>>
    /\ UNCHANGED <<start_episode, previous_action, episode_reward>>
    /\ optimize_model(batch_size)
    /\ ops' = Append(ops, "optimize")
    /\ error' = opt_ret'.exc
    /\ tr_pc' = IF error' = "none" THEN "check" ELSE "failed"
    /\ UNCHANGED <<memory, steps_done, i_episode, t, state, action, step_out, history,
                   tenv, syncs, eps_steps>>

\* lines 180-182, and the step loop's increment
M_LoopEnd ==
    /\ tr_pc = "check"
    /\ UNCHANGED envVars
    /\ opt_locals' = NoLocals   \* the frame of the optimize_model call is gone
    /\ UNCHANGED <<policy_grad, ops, chosen_by, pushes>>
    /\ UNCHANGED <<start_episode, previous_action, episode_reward>>
    /\ IF LoopBreaks(step_out.done)
       THEN /\ history' = Append(history, t + 1)
            /\ tr_pc' = "sync"
            /\ UNCHANGED t
       ELSE /\ t' = t + 1
            /\ tr_pc' = "select"
            /\ UNCHANGED history
    /\ UNCHANGED <<policy_net, target_net, optimizer, memory, steps_done, i_episode,
                   state, action, step_out, tenv, error, syncs, sample_calls, eps_steps,
                   opt_ret>>

\* lines 184-187, and the episode loop's increment
M_EpisodeEnd ==
    /\ tr_pc = "sync"
    /\ UNCHANGED envVars
    /\ UNCHANGED <<policy_grad, opt_locals, ops, chosen_by, pushes>>
    /\ UNCHANGED <<start_episode, previous_action, episode_reward>>
    /\ IF SyncDue(i_episode)
       THEN /\ target_net' = LoadStateDict(target_net, policy_net)
            /\ syncs' = syncs + 1
       ELSE UNCHANGED <<target_net, syncs>>
    /\ i_episode' = i_episode + 1
    /\ tr_pc' = "episode"
    /\ UNCHANGED <<policy_net, optimizer, memory, steps_done, t, state, action, step_out,
                   history, tenv, error, sample_calls, eps_steps, opt_ret>>

\* lines 189-190
M_Finish ==
    /\ tr_pc = "episode"
    /\ UNCHANGED envVars
    /\ UNCHANGED <<policy_grad, opt_locals, ops, chosen_by, pushes>>
    /\ UNCHANGED <<start_episode, previous_action, episode_reward>>
    /\ i_episode >= num_episodes
    /\ tenv' = [tenv EXCEPT !.closed = @ + 1]
    /\ tr_pc' = "finished"
    /\ UNCHANGED <<policy_net, target_net, optimizer, memory, steps_done, i_episode, t,
                   state, action, step_out, history, error, syncs, sample_calls,
                   eps_steps, opt_ret, start_episode, previous_action, episode_reward>>


(***************************************************************************)
(* DQNTrainer                                                              *)
(***************************************************************************)
\* what a DQNTrainer instance has: the class attributes (lines 30-32), what
\* __init__ and train assign (lines 35, 41, 94), and the methods
TrainerAttributes ==
    {"device", "env", "agent", "n_actions",
     "get_screen", "training_select_action", "train", "run"}

\* training_select_action (lines 68-80) gets steps_done by value: line 73
\* increments the callee's copy, and this is the caller's steps_done afterwards
StepsDoneAfterSelect(sd) == sd

\* lines 83-107; the optimizer is fresh or loaded from optimizer_state
T_Setup ==
    /\ tr_pc = "t_start"
    /\ UNCHANGED envVars
    /\ UNCHANGED <<policy_grad, opt_locals, ops, chosen_by, pushes>>
    /\ target_net' = LoadStateDict(target_net, policy_net)
    /\ syncs' = syncs + 1
    /\ \E os \in {0, 2} : optimizer' = [step |-> os]
    /\ memory' = [buf |-> <<>>, position |-> 0]
    /\ steps_done' = 0
    /\ history' = <<>>
    /\ i_episode' = start_episode
    /\ tr_pc' = "t_episode"
    /\ UNCHANGED <<policy_net, t, state, action, step_out, tenv, error, sample_calls,
                   eps_steps, opt_ret, start_episode, previous_action, episode_reward>>

\* lines 109-116: the head of the episode loop, with the selection before the
\* step loop
T_EpisodeStart ==
    /\ tr_pc = "t_episode"
    /\ UNCHANGED envVars
    /\ UNCHANGED <<policy_grad, opt_locals, pushes>>
    /\ i_episode < NUM_EPISODES
    /\ tenv' = [tenv EXCEPT !.resets = @ + 1]
    /\ episode_reward' = 0
    /\ state' = Tensor
    /\ eps_steps' = Append(eps_steps, steps_done)
    /\ steps_done' = StepsDoneAfterSelect(steps_done)
    /\ previous_action' \in Actions
    /\ chosen_by' = [chosen_by EXCEPT !.previous_action = Len(eps_steps'),
                                      !.first = Len(eps_steps')]
    /\ ops' = <<"reset", "select">>
    /\ t' = 0
    /\ tr_pc' = "t_select"
    /\ UNCHANGED <<policy_net, target_net, optimizer, memory, i_episode, action, step_out,
                   history, error, syncs, sample_calls, opt_ret, start_episode>>

\* lines 119-123
T_SelectAction ==
    /\ tr_pc = "t_select"
    /\ UNCHANGED envVars
    /\ UNCHANGED <<policy_grad, opt_locals, pushes>>
    /\ IF NewActionDue(t)
       THEN /\ eps_steps' = Append(eps_steps, steps_done)
            /\ steps_done' = StepsDoneAfterSelect(steps_done)
            /\ action' \in Actions
            /\ previous_action' = action'
            /\ chosen_by' = [chosen_by EXCEPT !.action = Len(eps_steps'),
                                              !.previous_action = Len(eps_steps')]
            /\ ops' = Append(ops, "select")
       ELSE /\ action' = previous_action
            /\ chosen_by' = [chosen_by EXCEPT !.action = chosen_by.previous_action]
            /\ ops' = Append(ops, "hold")
            /\ UNCHANGED <<eps_steps, steps_done, previous_action>>
    /\ tr_pc' = "t_envstep"
    /\ UNCHANGED <<policy_net, target_net, optimizer, memory, i_episode, t, state,
                   step_out, history, tenv, error, syncs, sample_calls, opt_ret,
                   start_episode, episode_reward>>

\* lines 125-146
T_EnvStep ==
    /\ tr_pc = "t_envstep"
    /\ UNCHANGED envVars
    /\ UNCHANGED <<policy_grad, opt_locals, chosen_by, pushes>>
    /\ \E reward \in TrainRewards, d \in BOOLEAN :
          /\ (t + 1 >= MaxTrainerSteps) => d
          /\ step_out' = [reward |-> reward, done |-> d, next_state |-> NextState(d)]
          /\ ops' = Append(ops, IF d THEN "step_done" ELSE "step")
          /\ episode_reward' = episode_reward + reward
    /\ tr_pc' = "t_push"
    /\ UNCHANGED <<policy_net, target_net, optimizer, memory, steps_done, i_episode, t,
                   state, action, history, tenv, error, syncs, sample_calls, eps_steps,
                   opt_ret, start_episode, previous_action>>

\* lines 149-152
T_Push ==
    /\ tr_pc = "t_push"
    /\ UNCHANGED envVars
    /\ UNCHANGED <<policy_grad, opt_locals, chosen_by, pushes>>
    /\ memory' = MemPush(memory, [state |-> state, action |-> action,
                                  next_state |-> step_out.next_state,
                                  reward |-> step_out.reward])
    /\ state' = step_out.next_state
    /\ ops' = Append(ops, "push")
    /\ tr_pc' = "t_optimize"
    /\ UNCHANGED <<policy_net, target_net, optimizer, steps_done, i_episode, t, action,
                   step_out, history, tenv, error, syncs, sample_calls, eps_steps, opt_ret,
                   start_episode, previous_action, episode_reward>>

\* lines 155-158: the agent's optimize_model, and the loss logged with '%f'
T_Optimize ==
    /\ tr_pc = "t_optimize"
    /\ UNCHANGED envVars
    /\ UNCHANGED <<chosen_by, pushes>>
    /\ optimize_model(BATCH_SIZE)
    /\ ops' = Append(ops, "optimize")
    /\ error' = IF opt_ret'.exc # "none" THEN opt_ret'.exc
                ELSE IF t % LOG_EVERY = 0 /\ MemLen(memory) >= BATCH_SIZE
                        /\ opt_ret'.loss = NoneVal
                THEN "TypeError"   \* '%f' % None
                ELSE "none"
    /\ tr_pc' = IF error' = "none" THEN "t_check" ELSE "failed"
    /\ UNCHANGED <<memory, steps_done, i_episode, t, state, action, step_out, history,
                   tenv, syncs, eps_steps, start_episode, previous_action, episode_reward>>

\* lines 163-164, and the step loop's increment
T_LoopEnd ==
    /\ tr_pc = "t_check"
    /\ UNCHANGED envVars
    /\ opt_locals' = NoLocals   \* the frame of the optimize_model call is gone
    /\ UNCHANGED <<policy_grad, ops, chosen_by, pushes>>
    /\ IF LoopBreaks(step_out.done)
       THEN tr_pc' = "t_sync" /\ UNCHANGED t
       ELSE tr_pc' = "t_select" /\ t' = t + 1
    /\ UNCHANGED <<policy_net, target_net, optimizer, memory, steps_done, i_episode,
                   state, action, step_out, history, tenv, error, syncs, sample_calls,
                   eps_steps, opt_ret, start_episode, previous_action, episode_reward>>

\* lines 167-172: self.target_net and self.policy_net are looked up on the
\* trainer, then the episode's reward is recorded and the state saved
T_EpisodeEnd ==
    /\ tr_pc = "t_sync"
    /\ UNCHANGED envVars
    /\ UNCHANGED <<policy_grad, opt_locals, ops, chosen_by, pushes>>
    /\ IF ~({"target_net", "policy_net"} \subseteq TrainerAttributes)
       THEN /\ error' = "AttributeError"
            /\ tr_pc' = "failed"
            /\ UNCHANGED <<target_net, syncs, history, i_episode>>
       ELSE /\ target_net' = LoadStateDict(target_net, policy_net)
            /\ syncs' = syncs + 1
            /\ history' = Append(history, episode_reward)
            /\ IF "training_save" \notin TrainerAttributes
               THEN /\ error' = "AttributeError"
                    /\ tr_pc' = "failed"
                    /\ UNCHANGED i_episode
               ELSE /\ i_episode' = i_episode + 1
                    /\ tr_pc' = "t_episode"
                    /\ UNCHANGED error
    /\ UNCHANGED <<policy_net, optimizer, memory, steps_done, t, state, action, step_out,
                   tenv, sample_calls, eps_steps, opt_ret, start_episode,
                   previous_action, episode_reward>>

\* lines 174-176
T_Finish ==
    /\ tr_pc = "t_episode"
    /\ UNCHANGED envVars
    /\ UNCHANGED <<policy_grad, opt_locals, ops, chosen_by, pushes>>
    /\ i_episode >= NUM_EPISODES
    /\ tenv' = [tenv EXCEPT !.closed = @ + 1]
    /\ tr_pc' = "finished"
    /\ UNCHANGED <<policy_net, target_net, optimizer, memory, steps_done, i_episode, t,
                   state, action, step_out, history, error, syncs, sample_calls,
                   eps_steps, opt_ret, start_episode, previous_action, episode_reward>>

\* DQNTrainer.__init__ has built the agent's two networks; train(start_episode=s)
\* is about to run
TrainerInit ==
    /\ EnvIdle
    /\ tr_pc = "t_start"
    /\ policy_net \in InitWeights
    /\ target_net \in InitWeights
    /\ optimizer = [step |-> 0]
    /\ memory = [buf |-> <<>>, position |-> 0]
    /\ steps_done = 0
    /\ i_episode = 0
    /\ t = 0
    /\ state = NoneVal
    /\ action = 0
    /\ step_out = [reward |-> 0, done |-> FALSE, next_state |-> NoneVal]
    /\ history = <<>>
    /\ tenv = [resets |-> 0, closed |-> 0]
    /\ error = "none"
    /\ syncs = 0
    /\ sample_calls = 0
    /\ eps_steps = <<>>
    /\ opt_ret = Returned
    /\ start_episode \in 0..NUM_EPISODES
    /\ previous_action = 0
    /\ episode_reward = 0
    /\ policy_grad = 0
    /\ opt_locals = NoLocals
    /\ ops = <<>>
    /\ chosen_by = NoSelection
    /\ pushes = <<>>

TrainerNext ==
    \/ T_Setup \/ T_EpisodeStart \/ T_SelectAction \/ T_EnvStep \/ T_Push \/ T_Optimize
    \/ T_LoopEnd \/ T_EpisodeEnd \/ T_Finish

SpecTrainer == TrainerInit /\ [][TrainerNext]_vars

ModelInit == EnvIdle /\ TrainAt("start")

ModelNext ==
    \/ M_CreateNets \/ M_InitialSync \/ M_EpisodeStart \/ M_SelectAction \/ M_EnvStep
    \/ M_Push \/ M_Optimize \/ M_LoopEnd \/ M_EpisodeEnd \/ M_Finish

SpecModel == ModelInit /\ [][ModelNext]_vars

\* either training loop
LoopsInit == ModelInit \/ TrainerInit

LoopsNext == ModelNext \/ TrainerNext

SpecLoops == LoopsInit /\ [][LoopsNext]_vars

(***************************************************************************)
(* optimize_model called on its own, on any memory                         *)
(***************************************************************************)
\* all sequences over S of length at most n
SeqsUpTo(S, n) == UNION { [1..k -> S] : k \in 0..n }

\* the transitions such a memory can hold
OptRewards == {0, 1}
OptTransitions ==
    [state : {Tensor}, action : {0}, next_state : {NoneVal, Tensor, TensorB},
     reward : OptRewards]

OptimizeInit ==
    /\ EnvIdle
    /\ tr_pc = "o_call"
    /\ policy_net \in InitWeights
    /\ target_net \in InitWeights
    /\ optimizer = [step |-> 0]
    /\ \E b \in SeqsUpTo(OptTransitions, Capacity) :
          memory = [buf |-> b, position |-> Len(b) % Capacity]
    /\ steps_done = 0
    /\ i_episode = 0
    /\ t = 0
    /\ state = NoneVal
    /\ action = 0
    /\ step_out = [reward |-> 0, done |-> FALSE, next_state |-> NoneVal]
    /\ history = <<>>
    /\ tenv = [resets |-> 0, closed |-> 0]
    /\ error = "none"
    /\ syncs = 0
    /\ sample_calls = 0
    /\ eps_steps = <<>>
    /\ opt_ret = Returned
    /\ start_episode = 0
    /\ previous_action = 0
    /\ episode_reward = 0
    /\ policy_grad \in {0, 1}
    /\ opt_locals = NoLocals
    /\ ops = <<>>
    /\ chosen_by = NoSelection
    /\ pushes = <<>>

\* one call optimize_model(memory, gamma, batch_size)
O_Optimize ==
    /\ tr_pc = "o_call"
    /\ \E bs \in 1..Capacity : optimize_model(bs)
    /\ error' = opt_ret'.exc
    /\ tr_pc' = "o_returned"
    /\ UNCHANGED envVars
    /\ UNCHANGED <<memory, steps_done, i_episode, t, state, action, step_out, history,
                   tenv, syncs, eps_steps, start_episode, previous_action,
                   episode_reward, ops, chosen_by, pushes>>

OptimizeNext == O_Optimize

SpecOptimize == OptimizeInit /\ [][OptimizeNext]_vars

(***************************************************************************)
(* A ReplayMemory used on its own                                          *)
(***************************************************************************)
\* the transitions pushed, told apart by their reward
PushRewards == {-1, 1, 2}
PushTransitions ==
    [state : {Tensor}, action : {0}, next_state : {Tensor}, reward : PushRewards]

MemoryInit == EnvIdle /\ TrainAt("r_use")

\* memory.push(state, action, next_state, reward)
R_Push ==
    /\ tr_pc = "r_use"
    /\ Len(pushes) < MaxPushes
    /\ \E tr \in PushTransitions :
          /\ memory' = MemPush(memory, tr)
          /\ pushes' = Append(pushes, tr)
    /\ UNCHANGED envVars
    /\ UNCHANGED <<tr_pc, policy_net, target_net, optimizer, steps_done, i_episode, t,
                   state, action, step_out, history, tenv, error, syncs, sample_calls,
                   eps_steps, opt_ret, start_episode, previous_action, episode_reward,
                   policy_grad, opt_locals, ops, chosen_by>>

MemoryNext == R_Push

SpecMemory == MemoryInit /\ [][MemoryNext]_vars

(***************************************************************************)
(* Properties of DreamEnv.step                                             *)
(***************************************************************************)
\* the call in progress or just finished passed the action translation
CallValid == call.action # <<>>

StepReturnedOk == env_pc = "returned" /\ result.exc = "ok"

\* C1: in a step call with a valid action and frame_skip n >= 1, every emulator
\* tick gets the same button mask (the translated action); no tick follows a
\* done tick; at return the ticks are n if none was done, else they end with
\* the first done tick; the returned done is the flag of the last tick
C1_TicksUntilDone ==
    (CallValid /\ call.n >= 1) =>
        /\ \A k \in 1..Len(ticks) : ticks[k].mask = RetroAction(call.action_index)
        /\ \A k \in 1..(Len(ticks) - 1) : ~ticks[k].done
        /\ Len(ticks) <= call.n
        /\ env_pc = "returned" =>
              /\ result.exc = "ok"
              /\ Len(ticks) >= 1
              /\ (Len(ticks) = call.n \/ ticks[Len(ticks)].done)
              /\ result.done = ticks[Len(ticks)].done

\* a call of at least 3 ticks that the emulator ended at the second
C1_Witness ==
    /\ StepReturnedOk
    /\ call.n >= 3
    /\ Len(ticks) = 2
    /\ ticks[2].done
    /\ result.done

\* C2: the total_reward a step call returns is the sum of the rewards of the
\* emulator ticks executed in that call
C2_RewardIsSumOfTicks ==
    StepReturnedOk => result.total_reward = SumRewards(ticks)

\* a returned call of three ticks with different rewards
C2_Witness ==
    /\ StepReturnedOk
    /\ Len(ticks) = 3
    /\ ticks[1].reward # ticks[3].reward
    /\ result.total_reward = 3

(***************************************************************************)
(* Properties of the stacked state buffer                                  *)
(***************************************************************************)
\* C3: get_state() right after construction, before any step, is a stack of
\* exactly 4 frames, all equal to the initial frame, for every frame_skip
C3_PrefilledWithFourFrames ==
    (env_pc = "ready" /\ calls = 0 /\ resets = 0) =>
        /\ state_buffer # <<>>
        /\ Len(get_state(state_buffer)) = 4
        /\ \A k \in 1..Len(state_buffer) : state_buffer[k] = get_frame(InitialScreen)

\* C4: after construction the buffer always holds exactly 4 frames, and a
\* successful step returns the 3 newest frames from before the call followed
\* by the new aggregated frame
C4_FourFramesDropOldest ==
    /\ env_pc # "new" => Len(state_buffer) = 4
    /\ StepReturnedOk =>
          /\ Len(call.buffer_before) = 4
          /\ result.state = SubSeq(call.buffer_before, 2, 4)
                               \o <<MaxedFrame(call.frame_buffer)>>

(***************************************************************************)
(* Properties of the action translation                                    *)
(***************************************************************************)
\* C5: step proceeds to the emulator for every index that resolves to an entry
\* of the reduced list, the trailing no-op included, and raises
\* ValueError('Invalid action') for every other index, out-of-range ones included
C5_InvalidActionIffNotInReducedSet ==
    (calls >= 1 /\ env_pc \in {"loop", "aggregate", "returned"}) =>
        IF InRange(call.action_index, dream_buttons)
        THEN CallValid /\ result.exc \in {"none", "ok", "RuntimeError"}
        ELSE ~CallValid /\ result.exc = "ValueError"

\* C6: an adapter whose configuration names an action the emulator has no
\* button for is never constructed
C6_UnmappableActionFailsConstruction ==
    (env_pc # "new" /\ config.actions # NoActions) =>
        \A k \in 1..Len(config.actions) : config.actions[k] \in Range(buttons)

\* C17: the frame a step() call pushes is the element-wise maximum of the
\* last two frames rendered by that call's ticks, and the single frame when
\* only one tick ran; older ticks and earlier calls contribute nothing
C17_AggregateOfLastTwoFrames ==
    StepReturnedOk =>
        LET n == Len(ticks)
            pushed == state_buffer[Len(state_buffer)]
        IN  /\ n >= 1
            /\ pushed = IF n = 1
                        THEN ticks[1].frame
                        ELSE [p \in 1..Len(ticks[n].frame) |->
                                 IF ticks[n - 1].frame[p] >= ticks[n].frame[p]
                                 THEN ticks[n - 1].frame[p]
                                 ELSE ticks[n].frame[p]]

\* a second call of three ticks whose first frame differs from the last two:
\* the pushed frame is the last one, not the maximum over all three
C17_Witness ==
    /\ StepReturnedOk
    /\ calls = 2
    /\ Len(ticks) = 3
    /\ ticks[1].frame # ticks[2].frame
    /\ ticks[2].frame = ticks[3].frame
    /\ state_buffer[Len(state_buffer)] = ticks[3].frame

\* a call of two ticks with different frames: the pushed frame is neither
C17_WitnessTwoFrames ==
    /\ StepReturnedOk
    /\ Len(ticks) = 2
    /\ state_buffer[Len(state_buffer)] \notin {ticks[1].frame, ticks[2].frame}

(***************************************************************************)
(* Properties of DreamEnv.reset                                            *)
(***************************************************************************)
\* C11 as claimed: every reset() increments the episode counter by one, with
\* or without a recording path: after n resets it is its initial value plus n
C11_EveryResetCountsEpisode ==
    env_pc \notin {"new", "idle"} => episode = 1 + resets

\* C11 as amended: reset() increments the episode counter by one when a
\* recording path is configured, and leaves it unchanged when none is
C11_ResetCountsRecordedEpisodes ==
    env_pc \notin {"new", "idle"} =>
        episode = 1 + (IF config.movie_path # NoneVal THEN resets ELSE 0)

\* both cases after a reset: with a recording path, and without
C11_Witness ==
    /\ resets >= 1
    /\ config.movie_path # NoneVal
    /\ episode = 1 + resets

(***************************************************************************)
(* Properties of the ReplayMemory                                          *)
(***************************************************************************)
\* how often x occurs in the sequence q
Count(q, x) == Cardinality({ k \in 1..Len(q) : q[k] = x })

\* the last m elements of the sequence q
LastOf(q, m) == SubSeq(q, Len(q) - m + 1, Len(q))

Min(a, b) == IF a <= b THEN a ELSE b

\* C12: after n pushes a memory of capacity C holds exactly the last min(n, C)
\* pushed transitions, as many times each as they occur among them, and its
\* length is min(n, C); so past the capacity the oldest one held is the
\* (n - C + 1)-th pushed
C12_MemoryHoldsLastPushes ==
    LET n == Len(pushes)
        m == Min(n, Capacity)
    IN  /\ MemLen(memory) = m
        /\ \A tr \in PushTransitions :
               Count(memory.buf, tr) = Count(LastOf(pushes, m), tr)

\* two pushes past the capacity, the first two pushed with a reward no later
\* push has: they are gone, the push after them is still held
C12_Witness ==
    /\ Len(pushes) = Capacity + 2
    /\ \A k \in 3..Len(pushes) : pushes[k].reward \notin {pushes[1].reward, pushes[2].reward}
    /\ pushes[1] \notin Range(memory.buf)
    /\ pushes[2] \notin Range(memory.buf)
    /\ pushes[3] \in Range(memory.buf)

(***************************************************************************)
(* Properties of optimize_model and the target network (DQN_Model)         *)
(***************************************************************************)
\* C7: an optimize_model call on a memory of fewer than batch_size entries
\* returns without calling memory.sample and leaves the policy network, the
\* target network and the optimizer state (and the memory) as they were
C7_SmallMemoryOptimizeIsNoOp ==
    [][(tr_pc = "optimize" /\ MemLen(memory) < batch_size) =>
            /\ sample_calls' = sample_calls
            /\ policy_net' = policy_net
            /\ target_net' = target_net
            /\ optimizer' = optimizer
            /\ memory' = memory
            /\ opt_ret' = Returned
            /\ tr_pc' = "check"]_vars

\* optimize_model has just returned on a memory one entry short of a batch
C7_Witness ==
    /\ tr_pc = "check"
    /\ MemLen(memory) = batch_size - 1
    /\ sample_calls = 0
    /\ optimizer.step = 0

C9_RunCompletesAllEpisodes ==
    /\ tr_pc # "failed"
    /\ error = "none"
    /\ tr_pc = "finished" =>
          /\ Len(history) = NUM_EPISODES - start_episode
          /\ tenv.closed = 1
    /\ tr_pc # "finished" => tenv.closed = 0

\* C10: the k-th epsilon threshold of a run (k from 0) is computed from
\* steps_done = k
C10_StepsDoneCountsDecisions ==
    \A k \in 1..Len(eps_steps) : eps_steps[k] = k - 1

(***************************************************************************)
(* Properties of one optimize_model call                                   *)
(***************************************************************************)
\* the expected value optimize_model is to build for one sampled transition,
\* in thousandths: reward + gamma * v, v the target network's maximum at
\* next_state, or 0 for a terminal transition
TargetOf(tr) ==
    tr.reward * 1000
    + GammaMilli * (IF tr.next_state = NoneVal THEN 0 ELSE MaxQ(target_net, tr.next_state))

SampledBatch == tr_pc = "o_returned" /\ opt_locals.batch # <<>>

\* C15: for every sampled batch, one of terminal transitions only included,
\* optimize_model builds the expected values reward + gamma * v entry by entry
\* in batch order
C15_TargetsForEveryBatch ==
    SampledBatch =>
        /\ opt_ret.exc = "none"
        /\ Len(opt_locals.expected_state_action_values) = Len(opt_locals.batch)
        /\ \A k \in 1..Len(opt_locals.batch) :
              opt_locals.expected_state_action_values[k] = TargetOf(opt_locals.batch[k])

\* the same for the batches that hold a non-terminal transition
TargetsForMixedBatches ==
    (SampledBatch /\ \E k \in 1..Len(opt_locals.batch) : opt_locals.non_final_mask[k]) =>
        /\ opt_ret.exc = "none"
        /\ \A k \in 1..Len(opt_locals.batch) :
              opt_locals.expected_state_action_values[k] = TargetOf(opt_locals.batch[k])

\* a batch of a terminal transition between two different non-terminal ones
MixedBatchReturned ==
    /\ SampledBatch
    /\ opt_locals.non_final_mask = <<TRUE, FALSE, TRUE>>
    /\ opt_locals.batch[1].next_state # opt_locals.batch[3].next_state
    /\ opt_ret.exc = "none"

\* C16: an updating optimize_model call zeroes the gradients, backpropagates,
\* clips, and then steps the optimizer, in this order; the gradient the
\* optimizer step applies is the clipped gradient of this call's loss alone,
\* and lies in [-1, 1]
C16_ClippedGradientAtStep ==
    (tr_pc = "check" /\ opt_locals.ops # <<>>) =>
        /\ opt_locals.ops = <<"zero_grad", "backward", "clamp", "step">>
        /\ opt_locals.step_grad \in -1..1
        /\ opt_locals.step_grad =
              IF opt_locals.loss_grad < -1 THEN -1
              ELSE IF opt_locals.loss_grad > 1 THEN 1 ELSE opt_locals.loss_grad
        /\ policy_grad = opt_locals.step_grad

\* the second update of a run, its loss gradient outside [-1, 1]
C16_Witness ==
    /\ tr_pc = "check"
    /\ optimizer.step = 2
    /\ opt_locals.loss_grad = -2
    /\ opt_locals.step_grad = -1

(***************************************************************************)
(* Properties of the training loops                                        *)
(***************************************************************************)
\* C13: every transition the training loops push has a state that is not
\* None, and its next_state is None exactly when the environment step of that
\* iteration signalled done
C13_PushedTransitionsWellFormed ==
    [][(tr_pc \in {"push", "t_push"} /\ tr_pc' \notin {"push", "t_push"}) =>
          LET pushed == memory'.buf[memory.position + 1]
          IN  /\ pushed.state # NoneVal
              /\ (pushed.next_state = NoneVal) <=> step_out.done]_vars

\* a terminal transition has just been pushed after a non-terminal one
C13_Witness ==
    /\ tr_pc \in {"optimize", "t_optimize"}
    /\ step_out.done
    /\ MemLen(memory) >= 2
    /\ memory.buf[memory.position].state = Tensor
    /\ memory.buf[memory.position].next_state = NoneVal
    /\ memory.buf[memory.position - 1].next_state = Tensor

\* C14: a call of optimize_model on a memory of at least batch_size entries
\* performs one update and returns the scalar loss to its caller
C14_UpdateReturnsLoss ==
    (tr_pc = "check" /\ MemLen(memory) >= batch_size) =>
        /\ opt_ret.exc = "none"
        /\ opt_locals.ops # <<>>
        /\ opt_ret.loss # NoneVal

Choices == {"select", "hold"}
EnvSteps == {"step", "step_done"}

\* C18: in every iteration of a step loop the operations are, in this order,
\* the action choice, one environment step, one push into the memory and one
\* optimize_model call; every episode begins with env.reset(); and once a step
\* has signalled done, only the push and the optimize_model call of that same
\* iteration follow before the next env.reset()
C18_IterationOrder ==
    \A k \in 1..Len(ops) :
        /\ (ops[k] = "reset") <=> (k = 1)
        /\ ops[k] \in Choices =>
              \/ ops[k - 1] \in {"reset", "optimize"}
              \/ k = 3 /\ ops[2] = "select"    \* DQNTrainer selects once before its loop
        /\ ops[k] \in EnvSteps => ops[k - 1] \in Choices
        /\ ops[k] = "push" => ops[k - 1] \in EnvSteps
        /\ ops[k] = "optimize" => ops[k - 1] = "push"
        /\ (k < Len(ops) /\ ops[k] \in EnvSteps) => ops[k + 1] = "push"
        /\ (k < Len(ops) /\ ops[k] = "push") => ops[k + 1] = "optimize"
        /\ (k < Len(ops) /\ ops[k] = "optimize") => ops[k + 1] \in Choices
        /\ ops[k] = "step_done" =>
              /\ Len(ops) <= k + 2
              /\ \A j \in (k + 1)..Len(ops) : ops[j] \in {"push", "optimize"}

\* the second episode of DQN_Model.train has ended after two iterations
C18_Witness ==
    /\ tr_pc = "sync"
    /\ i_episode = 1
    /\ ops = <<"reset", "select", "step", "push", "optimize",
               "select", "step_done", "push", "optimize">>

\* C19: in DQNTrainer.train a new action is selected exactly at the steps t
\* with t % FRAME_SKIP = 0; at every other step the action sent is the one
\* selected at the latest such step; the action selected before the step loop
\* is never sent
C19_ActionHeldBetweenSelections ==
    tr_pc \in {"t_envstep", "t_push", "t_optimize", "t_check"} =>
        /\ ops[3 + 4 * t] = IF t % FRAME_SKIP = 0 THEN "select" ELSE "hold"
        /\ Len(eps_steps) = chosen_by.first + 1 + (t \div FRAME_SKIP)
        /\ chosen_by.action = Len(eps_steps)
        /\ chosen_by.action # chosen_by.first
        /\ action = previous_action

\* the step after the second selection of the loop: its action is held
C19_Witness ==
    /\ tr_pc = "t_envstep"
    /\ t = FRAME_SKIP + 1
    /\ chosen_by.action = chosen_by.first + 2
    /\ ops[Len(ops)] = "hold"

\* C20: the target network is synchronized only between episodes: once before
\* the first episode, and then after the step loop of an episode has ended,
\* never inside the step loop; in DQN_Model.train the synchronization after
\* episode i_episode happens exactly when i_episode % target_update = 0
C20_SyncOnlyBetweenEpisodes ==
    [][/\ syncs' # syncs =>
             /\ tr_pc \in {"sync0", "sync", "t_start", "t_sync"}
             /\ syncs' = syncs + 1
       /\ (target_net' # target_net /\ tr_pc # "start") => syncs' # syncs
       /\ tr_pc' \in {"select", "t_select"} => syncs' >= 1
       /\ (tr_pc = "sync" /\ tr_pc' # "sync") =>
             ((syncs' # syncs) <=> (i_episode % target_update = 0))]_vars

\* DQN_Model.train after its second episode: synchronized before the first
\* episode and after it, not after the second
C20_Witness ==
    /\ tr_pc = "episode"
    /\ i_episode = 2
    /\ syncs = 2

(***************************************************************************)
(* Properties of reset and of failed step calls                            *)
(***************************************************************************)
\* the step has just returned a state, and the operation before it was reset()
FirstStepAfterResetReturns ==
    env_pc' = "returned" /\ result'.exc = "ok" /\ call'.after_reset

\* reset() leaves the state buffer and the frame counter as they were
ResetKeepsBufferAndFrame ==
    [][resets' # resets => (state_buffer' = state_buffer /\ frame' = frame)]_vars

\* C21: reset() leaves the state buffer and the frame counter unchanged, and
\* the three oldest frames of the state the first step after a reset returns
\* are the three newest frames the buffer held before the reset
C21_OldFramesSurviveReset ==
    [][/\ resets' # resets => (state_buffer' = state_buffer /\ frame' = frame)
       /\ FirstStepAfterResetReturns =>
             /\ Len(call'.buffer_before) >= 3
             /\ Len(result'.state) >= 3
             /\ SubSeq(result'.state, 1, 3) = LastOf(call'.buffer_before, 3)]_vars

\* the same for a buffer that held at least three frames before the reset
OldFramesSurviveResetOfFilledBuffer ==
    [][(FirstStepAfterResetReturns /\ Len(call'.buffer_before) >= 3) =>
          /\ Len(result'.state) = 4
          /\ SubSeq(result'.state, 1, 3) = LastOf(call'.buffer_before, 3)]_vars

\* a step, a reset and a step on a buffer of four frames: the returned state
\* still holds the frame of the step before the reset
FilledBufferAfterReset ==
    /\ StepReturnedOk
    /\ call.after_reset
    /\ calls = 2
    /\ Len(call.buffer_before) = 4
    /\ result.state[3] = call.buffer_before[4]
    /\ result.state[3] # get_frame(InitialScreen)

\* C22: a step call that fails with the invalid-action error has run no
\* emulator tick and has left the state buffer, the frame counter and the
\* episode counter, and all else a later step reads, as they were
C22_FailedStepChangesNothing ==
    [][(calls' # calls /\ TranslateOutcome(call'.action_index) = "ValueError") =>
          /\ env_pc' = "returned"
          /\ result'.exc = "ValueError"
          /\ ticks' = <<>>
          /\ UNCHANGED <<state_buffer, frame, episode, screen, frame_skip, buttons,
                         dream_buttons>>]_vars

\* a step with an invalid action after a step that ran: it failed, and the
\* buffer and the frame counter are those the first step left
C22_Witness ==
    /\ env_pc = "returned"
    /\ result.exc = "ValueError"
    /\ calls = 2
    /\ ticks = <<>>
    /\ frame > 1
    /\ state_buffer # <<>>
    /\ state_buffer = call.buffer_before
    /\ frame = call.frame_before

=============================================================================
